---- MODULE Spec2Model ----
(***************************************************************************)
(* geo3dfeatures: per-point geometric feature extraction from a 3D point   *)
(* cloud (src/geo3dfeatures/extract.py) and the featurize command that     *)
(* drives it (src/geo3dfeatures/tools/featurize.py, tools/__main__.py).    *)
(*                                                                         *)
(* Numbers.  Coordinates are integers counted in units of `buf` (1e-3),    *)
(* so that the grid arithmetic of build_accumulation_features is exact.    *)
(* A floating-point cell of a record is a Value: a rational, NaN, +-inf,   *)
(* or a transcendental quantity kept symbolically with its arguments.      *)
(* Exceptions are explicit outcomes ([ok |-> FALSE, exc |-> ...]).         *)
(***************************************************************************)
EXTENDS Integers, Sequences, FiniteSets, TLC

----------------------------------------------------------------------------
(* Bounds of the model.                                                    *)

MaxN == 4
MaxK == 5
MaxSample == 2
MaxTwiceSample == 1
MaxExtra == 1
MaxLbda == 5
MaxCoord == 2
MaxBin == 2
MaxGridN == 3

\* Python None for an integer option (neighbors, radius, nb_points)
None == -1

----------------------------------------------------------------------------
(* Values: what a float cell can hold.                                     *)

Num(n, d) == [t |-> "num", a |-> <<n, d>>]
NaN == [t |-> "nan", a |-> <<>>]
Inf(sign) == [t |-> "inf", a |-> <<sign>>]
Sym(tag, args) == [t |-> tag, a |-> args]
\* a finite real with no closed form here: pos = 1 when it is known to be
\* positive, 0 when its sign is not known; args identify it
Real(pos, args) == [t |-> "real", a |-> <<pos>> \o args]

IsNum(v) == v.t = "num"
IsNaN(v) == v.t = "nan"
IsReal(v) == v.t = "real"
IsZero(v) == IsNum(v) /\ v.a[1] = 0
IsPos(v) == (IsNum(v) /\ v.a[1] > 0) \/ (IsReal(v) /\ v.a[1] = 1)
Sign(n) == IF n > 0 THEN 1 ELSE IF n < 0 THEN -1 ELSE 0
Abs(n) == IF n < 0 THEN -n ELSE n

RECURSIVE GCD(_, _)
GCD(a, b) == IF b = 0 THEN a ELSE GCD(b, a % b)

\* the rational n/d (d > 0) in lowest terms
Rat(n, d) ==
    IF n = 0 THEN Num(0, 1)
    ELSE LET g == GCD(Abs(n), d) IN Num(n \div g, d \div g)

\* what identifies a value inside the arguments of a Real
Enc(v) == <<(IF IsNum(v) THEN 1 ELSE IF IsReal(v) THEN 2 ELSE 0)>> \o v.a

\* numpy float64 division: x/0 is +-inf, 0/0 is nan (a RuntimeWarning, no raise).
\* Operands are finite or nan.
NpDiv(x, y) ==
    IF IsNum(x) /\ IsNum(y)
    THEN IF y.a[1] = 0
         THEN IF x.a[1] = 0 THEN NaN ELSE Inf(Sign(x.a[1]))
         ELSE Rat(x.a[1] * y.a[2] * Sign(y.a[1]), x.a[2] * Abs(y.a[1]))
    ELSE IF ~(IsNum(x) \/ IsReal(x)) \/ ~(IsNum(y) \/ IsReal(y)) THEN NaN
    ELSE IF IsZero(y) THEN (IF IsPos(x) THEN Inf(1) ELSE NaN)
    ELSE IF IsZero(x) THEN Num(0, 1)
    ELSE Real((IF IsPos(x) /\ IsPos(y) THEN 1 ELSE 0), <<4>> \o Enc(x) \o Enc(y))

NpSub(x, y) ==
    IF IsNum(x) /\ IsNum(y)
    THEN Rat(x.a[1] * y.a[2] - y.a[1] * x.a[2], x.a[2] * y.a[2])
    ELSE IF ~(IsNum(x) \/ IsReal(x)) \/ ~(IsNum(y) \/ IsReal(y)) THEN NaN
    ELSE IF IsZero(y) THEN x
    ELSE Real(0, <<2>> \o Enc(x) \o Enc(y))

NpAdd(x, y) ==
    IF IsNum(x) /\ IsNum(y)
    THEN Rat(x.a[1] * y.a[2] + y.a[1] * x.a[2], x.a[2] * y.a[2])
    ELSE IF ~(IsNum(x) \/ IsReal(x)) \/ ~(IsNum(y) \/ IsReal(y)) THEN NaN
    ELSE IF IsZero(y) THEN x
    ELSE IF IsZero(x) THEN y
    ELSE Real((IF IsPos(x) /\ IsPos(y) THEN 1 ELSE 0), <<1>> \o Enc(x) \o Enc(y))

NpMul(x, y) ==
    IF IsNum(x) /\ IsNum(y)
    THEN Rat(x.a[1] * y.a[1], x.a[2] * y.a[2])
    ELSE IF ~(IsNum(x) \/ IsReal(x)) \/ ~(IsNum(y) \/ IsReal(y)) THEN NaN
    ELSE IF IsZero(x) \/ IsZero(y) THEN Num(0, 1)
    ELSE Real((IF IsPos(x) /\ IsPos(y) THEN 1 ELSE 0), <<3>> \o Enc(x) \o Enc(y))

\* sum(l) / np.sum(l) of a sequence of values
RECURSIVE NpSum(_)
NpSum(l) == IF l = <<>> THEN Num(0, 1) ELSE NpAdd(Head(l), NpSum(Tail(l)))

\* value comparison of two rationals (denominators are positive)
NumLeq(x, y) == x.a[1] * y.a[2] <= y.a[1] * x.a[2]
NumEq(x, y) == x.a[1] * y.a[2] = y.a[1] * x.a[2]

RECURSIVE SumTo(_, _)
SumTo(s, n) == IF n = 0 THEN 0 ELSE s[n] + SumTo(s, n - 1)
SumSeq(s) == SumTo(s, Len(s))

Min(S) == CHOOSE x \in S : \A y \in S : x <= y
Max(S) == CHOOSE x \in S : \A y \in S : y <= x

Ok(v) == [ok |-> TRUE, val |-> v, exc |-> "none"]
Raise(e) == [ok |-> FALSE, val |-> <<>>, exc |-> e]

----------------------------------------------------------------------------
(* extract.py: the eigenvalue formulas.  lbda is a sequence of values     *)
(* (what generate_features passes: the PCA singular values).               *)

\* extract.py:58-72  [item / sum(l) for item in l], on numpy floats
normalize_over_1(l) == [i \in 1..Len(l) |-> NpDiv(l[i], NpSum(l))]

\* extract.py:74-103
features3d(eigenvalues) ==
    LET a == NpSub(eigenvalues[1], eigenvalues[2])
        b == NpSub(NpAdd(NpMul(Num(2, 1), eigenvalues[1]),
                         NpMul(Num(4, 1), eigenvalues[2])),
                   Num(2, 1))
    IN  <<a, b>>

\* math.log on a float: ValueError ("math domain error") for 0 and negatives,
\* nan for nan
MathLogRaises(v) ==
    \/ IsNum(v) /\ v.a[1] <= 0
    \/ v.t = "inf" /\ v.a[1] < 0

\* (e0 * e1 * e2) ** (1/3) on numpy floats
Omnivariance(e) ==
    LET p == NpMul(NpMul(e[1], e[2]), e[3])
    IN  IF IsZero(p) THEN Num(0, 1)
        ELSE IF IsPos(p) THEN Sym("cbrt", Enc(p))
        ELSE NaN

\* -1 * np.sum([i * math.log(i) for i in e]), once no math.log has raised
Eigenentropy(e) ==
    IF \E i \in 1..Len(e) : ~IsPos(e[i]) THEN NaN
    ELSE Sym("entropy", Enc(e[1]) \o Enc(e[2]) \o Enc(e[3]))

\* extract.py:157-177
compute_3D_features(lbda) ==
    LET e == normalize_over_1(lbda)
        curvature_change == e[3]
        linearity == NpDiv(NpSub(e[1], e[2]), e[1])
        planarity == NpDiv(NpSub(e[2], e[3]), e[1])
        scattering == NpDiv(e[3], e[1])
        omnivariance == Omnivariance(e)
        anisotropy == NpDiv(NpSub(e[1], e[3]), e[1])
        eigenvalue_sum == NpSum(lbda)
    IN  IF \E i \in 1..Len(e) : MathLogRaises(e[i])
        THEN Raise("ValueError")
        ELSE Ok(<<curvature_change, linearity, planarity, scattering,
                  omnivariance, anisotropy, Eigenentropy(e), eigenvalue_sum>>)

\* the 2D features with the ratio taken the other way round
compute_2D_features_Inverted(lbda) ==
    LET eigenvalues_sum_2D == NpSum(lbda)
        eigenvalues_ratio_2D == NpDiv(lbda[2], lbda[1])
    IN  <<eigenvalues_sum_2D, eigenvalues_ratio_2D>>

\* extract.py:203-215
compute_2D_features(lbda) ==
    LET eigenvalues_sum_2D == NpSum(lbda)
        eigenvalues_ratio_2D == NpDiv(lbda[1], lbda[2])
    IN  <<eigenvalues_sum_2D, eigenvalues_ratio_2D>>

----------------------------------------------------------------------------
(* extract.py: the accumulation grid.  xyz is a sequence of <<x, y, z>>.   *)

\* buf = 1e-3 is the unit of the integer coordinates: 1.0 is Unit of them
Buf == 1
Unit == 1000
DefaultBinSize == 250

RECURSIVE SumOver(_, _)
SumOver(S, f) ==
    IF S = {} THEN 0
    ELSE LET i == CHOOSE i \in S : TRUE IN f[i] + SumOver(S \ {i}, f)

Xs(xyz) == {xyz[n][1] : n \in 1..Len(xyz)}
Ys(xyz) == {xyz[n][2] : n \in 1..Len(xyz)}

\* len(np.arange(lo, stop, bin_size)) = ceil((stop - lo) / bin_size)
ArangeLen(lo, stop, bin_size) ==
    IF stop <= lo THEN 0 ELSE (stop - lo + bin_size - 1) \div bin_size

\* the edges without the extension past the maximum: np.arange(min, max + buf, bin_size)
BinEdgesToMax(lo, hi, bin_size, buf) ==
    [i \in 1..ArangeLen(lo, hi + buf, bin_size) |-> lo + (i - 1) * bin_size]

\* extract.py:247,249  np.arange(min, max + bin_size + buf, bin_size)
BinEdges(lo, hi, bin_size, buf) ==
    [i \in 1..ArangeLen(lo, hi + bin_size + buf, bin_size) |-> lo + (i - 1) * bin_size]

\* extract.py:248,250  pd.cut(values, edges, right=False): the intervals
\* [edges[i], edges[i+1]) that hold v
BinsHolding(v, edges) ==
    {i \in 1..(Len(edges) - 1) : edges[i] <= v /\ v < edges[i + 1]}

\* the bin pd.cut assigns, 0 for NaN (v is in no interval)
Cut(v, edges) ==
    IF BinsHolding(v, edges) = {} THEN 0 ELSE CHOOSE i \in BinsHolding(v, edges) : TRUE

xbins(xyz, bin_size, buf) == BinEdges(Min(Xs(xyz)), Max(Xs(xyz)), bin_size, buf)
ybins(xyz, bin_size, buf) == BinEdges(Min(Ys(xyz)), Max(Ys(xyz)), bin_size, buf)

\* the (xbin, ybin) columns of df
CellOf(p, xyz, bin_size, buf) ==
    <<Cut(p[1], xbins(xyz, bin_size, buf)), Cut(p[2], ybins(xyz, bin_size, buf))>>

\* extract.py:251-252  groupby(["xbin", "ybin"]): rows with a NaN key are in no group
Members(cell, xyz, bin_size, buf) ==
    {n \in 1..Len(xyz) : cell[1] > 0 /\ cell[2] > 0
                         /\ CellOf(xyz[n], xyz, bin_size, buf) = cell}

Cells(xyz, bin_size, buf) ==
    (1..(Len(xbins(xyz, bin_size, buf)) - 1)) \X (1..(Len(ybins(xyz, bin_size, buf)) - 1))

\* the population standard deviation (ddof = 0): 0 for a single value
ZStdPopulation(S, xyz) ==
    LET n == Cardinality(S)
        s1 == SumOver(S, [i \in S |-> xyz[i][3]])
        s2 == SumOver(S, [i \in S |-> xyz[i][3] * xyz[i][3]])
    IN  IF n < 1 THEN NaN
        ELSE IF n * s2 - s1 * s1 = 0 THEN Num(0, 1)
        ELSE Sym("sqrt", <<n * s2 - s1 * s1, n * n>>)

\* pandas "std" (ddof = 1): NaN for fewer than two values
ZStd(S, xyz) ==
    LET n == Cardinality(S)
        s1 == SumOver(S, [i \in S |-> xyz[i][3]])
        s2 == SumOver(S, [i \in S |-> xyz[i][3] * xyz[i][3]])
    IN  IF n < 2 THEN NaN
        ELSE IF n * s2 - s1 * s1 = 0 THEN Num(0, 1)
        ELSE Sym("sqrt", <<n * s2 - s1 * s1, n * (n - 1)>>)

\* extract.py:251-256  one row of aggdf
CellStats(cell, xyz, bin_size, buf) ==
    LET S == Members(cell, xyz, bin_size, buf)
        zs == {xyz[i][3] : i \in S}
    IN  IF S = {}
        THEN [count |-> Num(0, 1), std |-> NaN, z_range |-> NaN]
        ELSE [count |-> Num(Cardinality(S), 1), std |-> ZStd(S, xyz),
              z_range |-> Rat(Max(zs) - Min(zs), Unit)]

\* extract.py:218-259  the merged frame: one row per point, in cloud order
build_accumulation_features(xyz, bin_size, buf) ==
    [n \in 1..Len(xyz) |->
        LET cell == CellOf(xyz[n], xyz, bin_size, buf)
            st == IF cell[1] > 0 /\ cell[2] > 0
                  THEN CellStats(cell, xyz, bin_size, buf)
                  ELSE [count |-> NaN, std |-> NaN, z_range |-> NaN]
        IN  [x |-> xyz[n][1], y |-> xyz[n][2], z |-> xyz[n][3],
             count |-> st.count, std |-> st.std, z_range |-> st.z_range]]

\* extract.py:280  features.query("x==@point_x & y==@point_y & z==@point_z")
QueryRows(point, features) ==
    {n \in 1..Len(features) : /\ features[n].x = point[1]
                              /\ features[n].y = point[2]
                              /\ features[n].z = point[3]}

\* extract.py:262-285
retrieve_accumulation_features(point, features) ==
    LET rows == QueryRows(point, features)
    IN  IF Cardinality(rows) # 1 THEN Raise("AssertionError")
        ELSE LET r == features[CHOOSE n \in rows : TRUE]
             IN  Ok(<<r.count, r.z_range, r.std>>)

----------------------------------------------------------------------------
(* extract.py: neighbourhoods and the per-point feature functions.         *)

Dist2(p, q) ==
    (p[1] - q[1]) * (p[1] - q[1]) + (p[2] - q[2]) * (p[2] - q[2])
    + (p[3] - q[3]) * (p[3] - q[3])

Dist2D2(p, q) == (p[1] - q[1]) * (p[1] - q[1]) + (p[2] - q[2]) * (p[2] - q[2])

\* position of index i when the cloud is sorted by distance to point
\* (equal distances in index order)
NeighborRank(i, point, xyz) ==
    Cardinality({j \in 1..Len(xyz) :
        \/ Dist2(xyz[j], point) < Dist2(xyz[i], point)
        \/ Dist2(xyz[j], point) = Dist2(xyz[i], point) /\ j < i}) + 1

\* a query that returns the whole cloud when k exceeds it
TreeQueryClamped(point, k, xyz) ==
    IF k = None THEN Raise("TypeError")
    ELSE LET rank == [i \in 1..Len(xyz) |-> NeighborRank(i, point, xyz)]
         IN  Ok([p \in 1..(IF k > Len(xyz) THEN Len(xyz) ELSE k) |->
                    CHOOSE i \in 1..Len(xyz) : rank[i] = p])

\* extract.py:125  kd_tree.query(point, k=nb_neighbors): TypeError when k is
\* not an integer, ValueError when k exceeds the number of indexed points
TreeQuery(point, k, xyz) ==
    IF k = None THEN Raise("TypeError")
    ELSE IF k > Len(xyz) THEN Raise("ValueError")
    ELSE LET rank == [i \in 1..Len(xyz) |-> NeighborRank(i, point, xyz)]
         IN  Ok([p \in 1..k |-> CHOOSE i \in 1..Len(xyz) : rank[i] = p])

\* extract.py:106-126  {"distance": ..., "indices": ...}; distances are kept squared
build_neighborhood(point, nb_neighbors, xyz) ==
    LET q == TreeQuery(point, nb_neighbors, xyz)
    IN  IF ~q.ok THEN q
        ELSE Ok([distance |-> [p \in 1..Len(q.val) |-> Dist2(xyz[q.val[p]], point)],
                 indices |-> q.val])

Diff(p, q) == <<p[1] - q[1], p[2] - q[2], p[3] - q[3]>>
Cross(u, v) ==
    <<u[2] * v[3] - u[3] * v[2], u[3] * v[1] - u[1] * v[3], u[1] * v[2] - u[2] * v[1]>>
Det(u, v, w) == u[1] * Cross(v, w)[1] + u[2] * Cross(v, w)[2] + u[3] * Cross(v, w)[3]

\* rank of the mean-centred neighbourhood = number of non-zero singular values
Rank(nb) ==
    LET D == {Diff(nb[i], nb[1]) : i \in 1..Len(nb)}
    IN  IF \A u \in D : u = <<0, 0, 0>> THEN 0
        ELSE IF \A u, v \in D : Cross(u, v) = <<0, 0, 0>> THEN 1
        ELSE IF \A u, v, w \in D : Det(u, v, w) = 0 THEN 2
        ELSE 3

Project2D(nb) == [i \in 1..Len(nb) |-> <<nb[i][1], nb[i][2], 0>>]

\* entry (c, d) of n^2 * X^T X, X the centred data: its rows are n * (p - mean)
\* for the rows p of the data, kept integral
Scatter(nb, c, d) ==
    LET n == Len(nb)
        sc == SumSeq([j \in 1..n |-> nb[j][c]])
        sd == SumSeq([j \in 1..n |-> nb[j][d]])
    IN  SumSeq([i \in 1..n |-> (n * nb[i][c] - sc) * (n * nb[i][d] - sd)])

\* floor of the square root of n, found between lo and hi
RECURSIVE ISqrtIn(_, _, _)
ISqrtIn(n, lo, hi) ==
    IF lo >= hi THEN lo
    ELSE LET mid == (lo + hi + 1) \div 2
         IN  IF mid * mid <= n THEN ISqrtIn(n, mid, hi) ELSE ISqrtIn(n, lo, mid - 1)

ISqrt(n) == ISqrtIn(n, 0, 46340)

\* sqrt(sq) / n in coordinate units: the singular value of a column of squared
\* norm sq / n^2
SingularValue(sq, n) ==
    IF sq = 0 THEN Num(0, 1)
    ELSE LET root == ISqrt(sq)
         IN  IF root * root = sq THEN Rat(root, n * Unit)
             ELSE Real(1, <<5, sq, n>>)

\* the i-th largest element of a sequence of integers
NthLargest(s, i) ==
    CHOOSE v \in {s[j] : j \in 1..Len(s)} :
        /\ Cardinality({j \in 1..Len(s) : s[j] > v}) < i
        /\ i <= Cardinality({j \in 1..Len(s) : s[j] >= v})

\* extract.py:23-40, 319-320  PCA(n_components=k).fit(data).singular_values_:
\* ValueError when data has fewer than k rows.  The singular values are the
\* square roots of the eigenvalues of X^T X, descending.  When X^T X is
\* diagonal they are the column norms; otherwise as many of them are positive
\* as the centred data has rank, and they have no closed form here.
_pca(nb, k) ==
    IF Len(nb) < k THEN Raise("ValueError")
    ELSE LET n == Len(nb)
             diag == SubSeq(<<Scatter(nb, 1, 1), Scatter(nb, 2, 2), Scatter(nb, 3, 3)>>, 1, k)
         IN  IF \A c \in 1..k : \A d \in (c + 1)..k : Scatter(nb, c, d) = 0
             THEN Ok([i \in 1..k |-> SingularValue(NthLargest(diag, i), n)])
             ELSE LET rank == Rank(nb)
                      xtx == <<6, n, diag[1], diag[2],
                               Scatter(nb, 3, 3), Scatter(nb, 1, 2),
                               Scatter(nb, 1, 3), Scatter(nb, 2, 3)>>
                  IN  Ok([i \in 1..k |->
                            IF i <= rank
                            THEN Real(1, <<xtx[1], i>> \o SubSeq(xtx, 2, 8))
                            ELSE Num(0, 1)])

SqrtOf(n) == IF n = 0 THEN Num(0, 1) ELSE Sym("sqrt", <<n, 1>>)

\* np.std (ddof = 0) of the z column
NpStd(zs) ==
    LET n == Len(zs)
        s1 == SumSeq(zs)
        s2 == SumSeq([i \in 1..n |-> zs[i] * zs[i]])
    IN  IF n * s2 - s1 * s1 = 0 THEN Num(0, 1)
        ELSE Sym("sqrt", <<n * s2 - s1 * s1, n * n>>)

SeqMax(s) == Max({s[i] : i \in 1..Len(s)})
SeqMin(s) == Min({s[i] : i \in 1..Len(s)})

\* the properties without the verticality cell
compute_3D_properties_NoVerticality(z_neighbors, distances) ==
    LET radius == SqrtOf(SeqMax(distances))
        z_range == Rat(SeqMax(z_neighbors) - SeqMin(z_neighbors), Unit)
        std_deviation == NpStd(z_neighbors)
        density == IF SeqMax(distances) = 0 THEN Inf(1)
                   ELSE Sym("density", <<Len(distances) + 1, SeqMax(distances)>>)
    IN  <<radius, z_range, std_deviation, density>>

\* extract.py:129-154  numpy floats: a zero radius gives density inf, no raise
compute_3D_properties(z_neighbors, distances) ==
    LET radius == SqrtOf(SeqMax(distances))
        z_range == Rat(SeqMax(z_neighbors) - SeqMin(z_neighbors), Unit)
        std_deviation == NpStd(z_neighbors)
        density == IF SeqMax(distances) = 0 THEN Inf(1)
                   ELSE Sym("density", <<Len(distances) + 1, SeqMax(distances)>>)
        verticality == NaN
    IN  <<radius, z_range, std_deviation, density, verticality>>

\* extract.py:180-200  Python floats (math.sqrt): a zero radius_2D raises
\* ZeroDivisionError
compute_2D_properties(point, neighbors) ==
    LET distances == [i \in 1..Len(neighbors) |-> Dist2D2(neighbors[i], point)]
        radius_2D == SqrtOf(SeqMax(distances))
    IN  IF SeqMax(distances) = 0 THEN Raise("ZeroDivisionError")
        ELSE Ok(<<radius_2D, Sym("density2D", <<Len(distances) + 1, SeqMax(distances)>>)>>)

ExtraNames == <<"r", "g", "b">>
\* the extra channels of input row n (colour bytes)
ExtraOf(n, width) == [j \in 1..(width - 3) |-> (51 * (n + j)) % 256]

Names3D == <<"alpha", "beta">>
NamesProps == <<"radius", "z_range", "std_dev", "density", "verticality">>
NamesEigen == <<"curvature_change", "linearity", "planarity", "scattering",
                "omnivariance", "anisotropy", "eigenentropy", "eigenvalue_sum">>
Names2D == <<"radius_2D", "density_2D", "eigenvalue_sum_2D", "eigenvalue_ratio_2D">>
NamesAcc == <<"bin_density", "bin_z_range", "bin_z_std">>

\* extract.py:316-328  the body of the loop for one point: the list it yields
\* (names: the quantity at each position), or the first exception raised
PointRecord(xyz_data, rgb_data, nb_neighbors, xyz, acc_features) ==
    LET neighborhood == build_neighborhood(xyz_data, nb_neighbors, xyz)
    IN  IF ~neighborhood.ok THEN neighborhood
        ELSE
        LET neighbors == [p \in 1..Len(neighborhood.val.indices) |->
                             xyz[neighborhood.val.indices[p]]]
            \* k = 1: squeeze() leaves a 0-d index, neighbors is 1-D and PCA.fit rejects it
            lbda_3D == IF nb_neighbors = 1 THEN Raise("ValueError") ELSE _pca(neighbors, 3)
            lbda_2D == _pca(Project2D(neighbors), 2)
        IN  IF ~lbda_3D.ok THEN lbda_3D
            ELSE IF ~lbda_2D.ok THEN lbda_2D
            ELSE
            LET f3 == compute_3D_features(lbda_3D.val)
                p2 == compute_2D_properties(xyz_data, neighbors)
                acc == retrieve_accumulation_features(xyz_data, acc_features)
            IN  IF ~f3.ok THEN f3
                ELSE IF ~p2.ok THEN p2
                ELSE IF ~acc.ok THEN acc
                ELSE Ok([names |-> Names3D \o <<"z">> \o NamesProps \o NamesEigen
                                   \o Names2D \o NamesAcc
                                   \o SubSeq(ExtraNames, 1, Len(rgb_data)),
                         vals |-> features3d(lbda_3D.val)
                                  \o <<Rat(xyz_data[3], Unit)>>
                                  \o compute_3D_properties(
                                        [p \in 1..Len(neighbors) |-> neighbors[p][3]],
                                        neighborhood.val.distance)
                                  \o f3.val
                                  \o p2.val
                                  \o compute_2D_features(lbda_2D.val)
                                  \o acc.val
                                  \o [j \in 1..Len(rgb_data) |-> Rat(rgb_data[j], 255)]])

----------------------------------------------------------------------------
(* The run: featurize.main and the generate_features generator.            *)
(* featurize.py imports all_features, eigen_features and alphabeta_features *)
(* from extract.py, which defines one extractor, generate_features (the    *)
(* full feature list): a "full" run is a run of generate_features, and     *)
(* runs of the two other feature sets are not modelled.                    *)

VARIABLES
    entry,        \* "cli": geo3d featurize; "main": featurize.main(opts);
                  \* "api": generate_features(...) consumed by its caller
    opts,         \* the options of the run
    cloud,        \* the input points (<<x, y, z>>), in file order
    width,        \* columns of the input array: 3 + extra channels
    pc,           \* where the run is
    data,         \* the rows handed to the extractor: indices into cloud
    acc_features, \* extract.py:306
    kd_tree,      \* extract.py:314: the coordinates the tree indexes
    sample_mask,  \* extract.py:307-312
    pos,          \* next position of sample_mask the loop reads
    out,          \* the rows the consumer has received / the sink holds
    exc,          \* the exception that ended the run
    dirs,         \* os.makedirs has created the output directory
    file,         \* the output file: "none", "open", "closed"
    queries,      \* calls of build_neighborhood (kd_tree.query) so far
    draws,        \* calls of np.random.choice so far
    builds,       \* constructions of (accumulation frame, kd-tree) so far
    run,          \* 1, or 2 for a second run on the same input and options
    prev          \* what the first run left

vars == <<entry, opts, cloud, width, pc, data, acc_features, kd_tree, sample_mask,
          pos, out, exc, dirs, file, queries, draws, builds, run, prev>>

\* the places a point can be at (units of buf): alternate corners of a
\* 0.9 x 0.6 x 0.3 box, a tetrahedron whose centred coordinates are orthogonal
Pts == <<(<<900, 0, 0>>), (<<0, 600, 0>>), (<<0, 0, 300>>), (<<900, 600, 300>>)>>

\* the input clouds: 1..MaxN points, repeats allowed, listed in the order of Pts
Clouds ==
    UNION {{[i \in 1..n |-> Pts[g[i]]] :
              g \in {h \in [1..n -> 1..Len(Pts)] : \A i \in 1..(n - 1) : h[i] <= h[i + 1]}} :
           n \in 1..MaxN}

\* geo3dfeatures.FEATURE_SETS: the names featurize.main dispatches on
FEATURE_SETS == {"alphabeta", "eigenvalues", "full"}

Terminal == {"done", "error", "exit"}

\* np.random.choice(np.arange(n), size=size, replace=False): any ordered
\* selection of distinct indices (the generator is never seeded)
Choices(n, size) ==
    {m \in [1..size -> 1..n] : \A i, j \in 1..size : i # j => m[i] # m[j]}

XyzOf(rows) == [i \in 1..Len(rows) |-> cloud[rows[i]]]

NoPrev == [pc |-> "none", exc |-> "none", out |-> <<>>, mask |-> <<>>]

Fresh ==
    /\ data = [i \in 1..Len(cloud) |-> i]
    /\ acc_features = <<>>
    /\ kd_tree = <<>>
    /\ sample_mask = <<>>
    /\ pos = 0
    /\ out = <<>>
    /\ exc = "none"
    /\ queries = 0
    /\ draws = 0
    /\ builds = 0

StartPc(e) == IF e = "cli" THEN "parse" ELSE IF e = "main" THEN "main" ELSE "gen"

InitApi(maxSample) ==
    /\ entry = "api"
    /\ cloud \in Clouds
    /\ width \in 3..(3 + MaxExtra)
    /\ \E k \in 1..MaxK, p \in {None} \cup 1..maxSample :
         opts = [neighbors |-> k, radius |-> None, sample_points |-> p,
                 feature_set |-> "full", input_columns |-> width, suffix |-> ".xyz"]
    /\ pc = StartPc(entry)
    /\ Fresh
    /\ dirs = FALSE /\ file = "none" /\ run = 1 /\ prev = NoPrev

\* extract.py:306-314  the generator runs up to its loop.  nb_points is the
\* caller's (api); featurize.main passes none.
GenStart ==
    /\ pc = "gen"
    /\ LET nb_points == IF entry = "api" THEN opts.sample_points ELSE None
           n == Len(data)
       IN  /\ acc_features' = build_accumulation_features(XyzOf(data), DefaultBinSize, Buf)
           /\ IF nb_points = None
              THEN /\ sample_mask' = [i \in 1..n |-> i]
                   /\ kd_tree' = XyzOf(data)
                   /\ builds' = builds + 1
                   /\ pc' = "loop" /\ pos' = 1
                   /\ UNCHANGED <<draws, exc>>
              ELSE IF nb_points > n
              THEN \* np.random.choice: larger sample than population
                   /\ pc' = "error" /\ exc' = "ValueError: sample larger than population"
                   /\ draws' = draws + 1
                   /\ UNCHANGED <<sample_mask, kd_tree, builds, pos>>
              ELSE /\ sample_mask' \in Choices(n, nb_points)
                   /\ kd_tree' = XyzOf(data)
                   /\ builds' = builds + 1
                   /\ draws' = draws + 1
                   /\ pc' = "loop" /\ pos' = 1
                   /\ UNCHANGED exc
    /\ UNCHANGED <<entry, opts, cloud, width, data, out, dirs, file, queries, run, prev>>

\* one turn of a loop that passes over a point whose record raises
GenNext_SkipFailed ==
    /\ pc = "loop"
    /\ pos <= Len(sample_mask)
    /\ LET idx == sample_mask[pos]
           r == PointRecord(kd_tree[idx], ExtraOf(data[idx], width), opts.neighbors,
                            kd_tree, acc_features)
       IN  /\ queries' = queries + 1
           /\ out' = IF r.ok
                     THEN Append(out, [idx |-> data[idx], names |-> r.val.names,
                                       vals |-> r.val.vals])
                     ELSE out
           /\ pos' = pos + 1
           /\ UNCHANGED <<pc, exc>>
    /\ UNCHANGED <<entry, opts, cloud, width, data, acc_features, kd_tree, sample_mask,
                   dirs, file, draws, builds, run, prev>>

\* one turn of a loop that builds the kd-tree anew for every point
GenNext_Rebuild ==
    /\ pc = "loop"
    /\ pos <= Len(sample_mask)
    /\ LET idx == sample_mask[pos]
           r == PointRecord(kd_tree[idx], ExtraOf(data[idx], width), opts.neighbors,
                            kd_tree, acc_features)
       IN  /\ queries' = queries + 1
           /\ builds' = builds + 1
           /\ IF r.ok
              THEN /\ out' = Append(out, [idx |-> data[idx], names |-> r.val.names,
                                          vals |-> r.val.vals])
                   /\ pos' = pos + 1
                   /\ UNCHANGED <<pc, exc>>
              ELSE /\ pc' = "error" /\ exc' = r.exc
                   /\ UNCHANGED <<out, pos>>
    /\ UNCHANGED <<entry, opts, cloud, width, data, acc_features, kd_tree, sample_mask,
                   dirs, file, draws, run, prev>>

\* extract.py:315-328  one turn of the loop: the record of the next sampled
\* point reaches the consumer, or its exception ends the run
GenNext ==
    /\ pc = "loop"
    /\ pos <= Len(sample_mask)
    /\ LET idx == sample_mask[pos]
           r == PointRecord(kd_tree[idx], ExtraOf(data[idx], width), opts.neighbors,
                            kd_tree, acc_features)
       IN  /\ queries' = queries + 1
           /\ IF r.ok
              THEN /\ out' = Append(out, [idx |-> data[idx], names |-> r.val.names,
                                          vals |-> r.val.vals])
                   /\ pos' = pos + 1
                   /\ UNCHANGED <<pc, exc>>
              ELSE /\ pc' = "error" /\ exc' = r.exc
                   /\ UNCHANGED <<out, pos>>
    /\ UNCHANGED <<entry, opts, cloud, width, data, acc_features, kd_tree, sample_mask,
                   dirs, file, draws, builds, run, prev>>

\* the loop is exhausted: StopIteration reaches the consumer
GenStop ==
    /\ pc = "loop"
    /\ pos > Len(sample_mask)
    /\ pc' = IF entry = "api" THEN "done" ELSE "close"
    /\ UNCHANGED <<entry, opts, cloud, width, data, acc_features, kd_tree, sample_mask,
                   pos, out, exc, dirs, file, queries, draws, builds, run, prev>>

\* the same input and options are run a second time
Rerun ==
    /\ pc \in Terminal
    /\ run = 1
    /\ run' = 2
    /\ prev' = [pc |-> pc, exc |-> exc, out |-> out, mask |-> sample_mask]
    /\ UNCHANGED <<entry, opts, cloud, width, dirs, file>>
    /\ pc' = StartPc(entry)
    /\ data' = [i \in 1..Len(cloud) |-> i]
    /\ acc_features' = <<>> /\ kd_tree' = <<>> /\ sample_mask' = <<>>
    /\ pos' = 0 /\ out' = <<>> /\ exc' = "none"
    /\ queries' = 0 /\ draws' = 0 /\ builds' = 0

NextApi == GenStart \/ GenNext \/ GenStop

\* generate_features called on a cloud and consumed to its end
Spec == InitApi(MaxSample) /\ [][NextApi]_vars

NextTwice == NextApi \/ Rerun

\* the same call made twice
SpecTwice == InitApi(MaxTwiceSample) /\ [][NextTwice]_vars

----------------------------------------------------------------------------
(* The featurize command.                                                  *)

\* clouds without repeated points
DistinctClouds == {c \in Clouds : \A i, j \in 1..Len(c) : i # j => c[i] # c[j]}

\* the four places, the last of them given twice: with 5 neighbours the first
\* three points have a record and the repeated one fails
RepeatedLast == Pts \o <<Pts[Len(Pts)]>>

InitMain ==
    /\ entry \in {"cli", "main"}
    /\ cloud \in DistinctClouds \cup {RepeatedLast}
    /\ width \in 3..(3 + MaxExtra)
    /\ \E k \in {None} \cup 1..MaxK, r \in {None, 1}, p \in {None} \cup 1..MaxSample,
          f \in {"full", "bogus"}, c \in {width, width + 1},
          sfx \in {".xyz", ".txt"} :
         opts = [neighbors |-> k, radius |-> r, sample_points |-> p,
                 feature_set |-> f, input_columns |-> c, suffix |-> sfx]
    /\ pc = StartPc(entry)
    /\ Fresh
    /\ dirs = FALSE /\ file = "none" /\ run = 1 /\ prev = NoPrev

\* the exceptions of featurize.main, with what their message names
BadExtension == "ValueError: file extension"
BadColumns == "ValueError: input columns"
BadFeatureSet == "ValueError: feature set"
BadSample == "ValueError: sample larger than population"

Ends(e) ==
    /\ pc' = (IF e = "SystemExit" THEN "exit" ELSE "error")
    /\ exc' = e

\* tools/__main__.py:196-198, 206-218, 235  parse_args: -f takes one of
\* FEATURE_SETS; -n and -r are mutually exclusive (the group is not required)
ParseArgs ==
    /\ pc = "parse"
    /\ IF opts.neighbors # None /\ opts.radius # None THEN Ends("SystemExit")
       ELSE IF opts.feature_set \notin FEATURE_SETS THEN Ends("SystemExit")
       ELSE pc' = "main" /\ UNCHANGED exc
    /\ UNCHANGED <<entry, opts, cloud, width, data, acc_features, kd_tree, sample_mask,
                   pos, out, dirs, file, queries, draws, builds, run, prev>>

\* featurize.py:16-25  the file is read and its width checked
MainRead ==
    /\ pc = "main"
    /\ IF opts.suffix \notin {".xyz", ".las"} THEN Ends(BadExtension)
       ELSE IF opts.input_columns # width THEN Ends(BadColumns)
       ELSE pc' = "sample" /\ UNCHANGED exc
    /\ UNCHANGED <<entry, opts, cloud, width, data, acc_features, kd_tree, sample_mask,
                   pos, out, dirs, file, queries, draws, builds, run, prev>>

\* featurize.py:27-31  data = data[sample_mask]
MainSample ==
    /\ pc = "sample"
    /\ IF opts.sample_points = None
       THEN pc' = "dispatch" /\ UNCHANGED <<data, draws, exc>>
       ELSE IF opts.sample_points > Len(data)
       THEN Ends(BadSample) /\ draws' = draws + 1 /\ UNCHANGED data
       ELSE /\ \E m \in Choices(Len(data), opts.sample_points) :
                 data' = [i \in 1..Len(m) |-> data[m[i]]]
            /\ draws' = draws + 1
            /\ pc' = "dispatch" /\ UNCHANGED exc
    /\ UNCHANGED <<entry, opts, cloud, width, acc_features, kd_tree, sample_mask,
                   pos, out, dirs, file, queries, builds, run, prev>>

\* featurize.py:33-46  the generator of the feature set is created (none of
\* its code runs yet), or the feature set is rejected
MainDispatch ==
    /\ pc = "dispatch"
    /\ IF opts.feature_set \in {"alphabeta", "eigenvalues", "full"}
       THEN pc' = "output" /\ UNCHANGED exc
       ELSE Ends(BadFeatureSet)
    /\ UNCHANGED <<entry, opts, cloud, width, data, acc_features, kd_tree, sample_mask,
                   pos, out, dirs, file, queries, draws, builds, run, prev>>

\* featurize.py:48-61  os.makedirs(output_path, exist_ok=True)
MainOutput ==
    /\ pc = "output"
    /\ dirs' = TRUE
    /\ pc' = "write"
    /\ UNCHANGED <<entry, opts, cloud, width, data, acc_features, kd_tree, sample_mask,
                   pos, out, exc, file, queries, draws, builds, run, prev>>

\* featurize.py:62  write_features(output_file, gen): the file is opened and
\* the generator consumed row by row
WriteOpen ==
    /\ pc = "write"
    /\ file' = "open"
    /\ out' = <<>>
    /\ pc' = "gen"
    /\ UNCHANGED <<entry, opts, cloud, width, data, acc_features, kd_tree, sample_mask,
                   pos, exc, dirs, queries, draws, builds, run, prev>>

\* the generator is exhausted: the file is closed
WriteClose ==
    /\ pc = "close"
    /\ file' = "closed"
    /\ pc' = "done"
    /\ UNCHANGED <<entry, opts, cloud, width, data, acc_features, kd_tree, sample_mask,
                   pos, out, exc, dirs, queries, draws, builds, run, prev>>

NextMain ==
    \/ ParseArgs \/ MainRead \/ MainSample \/ MainDispatch \/ MainOutput
    \/ WriteOpen \/ GenStart \/ GenNext \/ GenStop \/ WriteClose

\* geo3d featurize, or featurize.main(opts), on a cloud
SpecMain == InitMain /\ [][NextMain]_vars

----------------------------------------------------------------------------
(* The accumulation frame on its own: it is built for a cloud and a bin    *)
(* size, then queried for every point of the cloud in turn.                *)

\* grid clouds: x in 0..MaxCoord, y and z in 0..1 (units of buf), sorted
GridPts == {<<x, y, z>> : x \in 0..MaxCoord, y \in 0..1, z \in 0..1}

PtLeq(p, q) ==
    \/ p[1] < q[1]
    \/ p[1] = q[1] /\ p[2] < q[2]
    \/ p[1] = q[1] /\ p[2] = q[2] /\ p[3] <= q[3]

GridClouds ==
    UNION {{c \in [1..n -> GridPts] : \A i \in 1..(n - 1) : PtLeq(c[i], c[i + 1])} :
           n \in 1..MaxGridN}

InitGrid ==
    /\ entry = "grid"
    /\ cloud \in GridClouds
    /\ width = 3
    /\ \E b \in 1..MaxBin : opts = [bin_size |-> b]
    /\ pc = "build"
    /\ Fresh
    /\ dirs = FALSE /\ file = "none" /\ run = 1 /\ prev = NoPrev

\* extract.py:218-259  build_accumulation_features(point_cloud, bin_size)
GridBuild ==
    /\ pc = "build"
    /\ acc_features' = build_accumulation_features(cloud, opts.bin_size, Buf)
    /\ builds' = builds + 1
    /\ pc' = "lookup" /\ pos' = 1
    /\ UNCHANGED <<entry, opts, cloud, width, data, kd_tree, sample_mask, out, exc,
                   dirs, file, queries, draws, run, prev>>

\* extract.py:262-285  retrieve_accumulation_features for the next point
GridLookup ==
    /\ pc = "lookup"
    /\ pos <= Len(cloud)
    /\ LET r == retrieve_accumulation_features(cloud[pos], acc_features)
       IN  out' = Append(out, [idx |-> pos, ok |-> r.ok, vals |-> r.val])
    /\ pos' = pos + 1
    /\ UNCHANGED <<entry, opts, cloud, width, pc, data, acc_features, kd_tree,
                   sample_mask, exc, dirs, file, queries, draws, builds, run, prev>>

NextGrid == GridBuild \/ GridLookup

SpecGrid == InitGrid /\ [][NextGrid]_vars

----------------------------------------------------------------------------
(* The eigenvalue formulas on their own, applied to a descending           *)
(* non-negative triple.                                                    *)

Triples ==
    {l \in [1..3 -> 0..MaxLbda] : l[1] >= l[2] /\ l[2] >= l[3]}

InitEigen ==
    /\ entry = "eigen"
    /\ cloud = <<>>
    /\ width = 3
    /\ \E l \in Triples : opts = [lbda |-> l]
    /\ pc = "apply"
    /\ Fresh
    /\ dirs = FALSE /\ file = "none" /\ run = 1 /\ prev = NoPrev

\* the triple as the numpy array the functions receive
Lbda == [i \in 1..Len(opts.lbda) |-> Num(opts.lbda[i], 1)]

Applied(fn) == \E i \in 1..Len(out) : out[i].fn = fn

Apply(fn, ok, vals) ==
    /\ pc = "apply"
    /\ ~Applied(fn)
    /\ out' = Append(out, [fn |-> fn, ok |-> ok, vals |-> vals])
    /\ UNCHANGED <<entry, opts, cloud, width, pc, data, acc_features, kd_tree,
                   sample_mask, pos, exc, dirs, file, queries, draws, builds, run, prev>>

Apply3DFeatures ==
    LET r == compute_3D_features(Lbda)
    IN  Apply("compute_3D_features", r.ok, r.val)

Apply2DFeatures ==
    Apply("compute_2D_features", TRUE, compute_2D_features(SubSeq(Lbda, 1, 2)))

ApplyFeatures3d ==
    Apply("features3d", TRUE, features3d(Lbda))

NextEigen == Apply3DFeatures \/ Apply2DFeatures \/ ApplyFeatures3d

SpecEigen == InitEigen /\ [][NextEigen]_vars

----------------------------------------------------------------------------
(* The kd-tree on its own: it is built over a cloud, then queried for the  *)
(* neighbourhood of every point of the cloud in turn.                      *)

InitTree ==
    /\ entry = "tree"
    /\ cloud \in Clouds
    /\ width = 3
    /\ \E k \in 1..MaxK : opts = [neighbors |-> k]
    /\ pc = "index"
    /\ Fresh
    /\ dirs = FALSE /\ file = "none" /\ run = 1 /\ prev = NoPrev

\* extract.py:314  KDTree(point_cloud[:, :3], leaf_size=kdtree_leaf_size)
TreeBuild ==
    /\ pc = "index"
    /\ kd_tree' = cloud
    /\ builds' = builds + 1
    /\ pc' = "query" /\ pos' = 1
    /\ UNCHANGED <<entry, opts, cloud, width, data, acc_features, sample_mask, out, exc,
                   dirs, file, queries, draws, run, prev>>

\* extract.py:106-126  build_neighborhood for the next point: what the caller
\* gets, the dictionary or the exception
TreeRequest ==
    /\ pc = "query"
    /\ pos <= Len(cloud)
    /\ LET r == build_neighborhood(cloud[pos], opts.neighbors, kd_tree)
       IN  out' = Append(out, [idx |-> pos, ok |-> r.ok, exc |-> r.exc, val |-> r.val])
    /\ queries' = queries + 1
    /\ pos' = pos + 1
    /\ UNCHANGED <<entry, opts, cloud, width, pc, data, acc_features, kd_tree,
                   sample_mask, exc, dirs, file, draws, builds, run, prev>>

NextTree == TreeBuild \/ TreeRequest

SpecTree == InitTree /\ [][NextTree]_vars

----------------------------------------------------------------------------
(* The claims.                                                             *)

Ended == pc \in {"done", "error"}
NoSubSample == opts.sample_points = None

\* the 22 descriptors of a full record, in the order of the output contract
FullDescriptors == Names3D \o NamesProps \o NamesEigen \o Names2D \o NamesAcc

\* C1: a call without sub-sampling (nb_points is None) on a cloud of N >= 1
\* points, with a neighbour count that PCA accepts and the cloud can supply
\* (3 <= k <= N), ends with exactly N records, one per input point in turn;
\* no point, degenerate neighbourhood or not, is left without a record.
C1_OneRecordPerPoint ==
    (Ended /\ NoSubSample /\ opts.neighbors \in 3..Len(cloud))
        => /\ Len(out) = Len(cloud)
           /\ \A i \in 1..Len(out) : out[i].idx = i

\* C2: records reach the consumer in original point order: of two records,
\* the one of the smaller input index is written first.
C2_OriginalOrder ==
    \A a, b \in 1..Len(out) : a < b => out[a].idx < out[b].idx

\* C3: a second run on the same input and options (sub-sample included) ends
\* as the first did, with the same points selected and the same rows in the
\* same order.
C3_SameOutputTwice ==
    (run = 2 /\ pc \in Terminal) => (out = prev.out /\ pc = prev.pc)

BothSet == opts.neighbors # None /\ opts.radius # None
NeitherSet == opts.neighbors = None /\ opts.radius = None

\* C4: a request that sets both the neighbour count and the radius, or
\* neither, ends in an error without any neighbourhood query being made; a
\* request that sets exactly one (a count the cloud can supply, or a radius)
\* gets a 2-element result from its query.
C4_ExactlyOneMode ==
    /\ (BothSet \/ NeitherSet) => (queries = 0 /\ pc # "done")
    /\ (~BothSet /\ ~NeitherSet /\ queries > 0
            /\ (opts.neighbors = None \/ opts.neighbors <= Len(kd_tree)))
           => LET q == build_neighborhood(kd_tree[sample_mask[1]], opts.neighbors, kd_tree)
              IN  q.ok /\ Cardinality(DOMAIN q.val) = 2

\* C5: when the run ends in a configuration error (unknown feature set, or
\* declared columns that do not match the input width), nothing has been
\* processed: no sub-sample drawn, no structure built, no record computed,
\* no output directory or file created.
C5_ConfigErrorBeforeProcessing ==
    (pc = "error" /\ exc \in {BadColumns, BadFeatureSet})
        => /\ draws = 0
           /\ data = [i \in 1..Len(cloud) |-> i]
           /\ builds = 0 /\ queries = 0 /\ out = <<>>
           /\ ~dirs /\ file = "none"

\* C6: every full record lists x, y, z first, then the extra channels, then
\* the 22 descriptors in the order of the contract, and its x, y, z are the
\* coordinates of its point.
C6_FullFieldOrder ==
    \A i \in 1..Len(out) :
        /\ out[i].names = <<"x", "y", "z">> \o SubSeq(ExtraNames, 1, width - 3)
                          \o FullDescriptors
        /\ \A c \in 1..3 : out[i].vals[c] = Rat(cloud[out[i].idx][c], Unit)

GridBuilt == pc = "lookup"

\* C8: in the built grid every point of the cloud lies in exactly one x bin
\* and exactly one y bin (the cloud's largest x and y included), and the
\* counts of the cells add up to the number of points.
C8_GridPartitions ==
    GridBuilt =>
        /\ \A n \in 1..Len(cloud) :
              /\ Cardinality(BinsHolding(cloud[n][1], xbins(cloud, opts.bin_size, Buf))) = 1
              /\ Cardinality(BinsHolding(cloud[n][2], ybins(cloud, opts.bin_size, Buf))) = 1
        /\ LET cells == Cells(cloud, opts.bin_size, Buf)
           IN  SumOver(cells, [c \in cells |->
                   CellStats(c, cloud, opts.bin_size, Buf).count.a[1]]) = Len(cloud)
        /\ \A n \in 1..Len(acc_features) : IsNum(acc_features[n].count)

\* C8 witness: a grid is built whose largest x lies on a bin edge, two bins
\* away from the smallest
C8_Witness ==
    /\ GridBuilt
    /\ Max(Xs(cloud)) - Min(Xs(cloud)) = 2 * opts.bin_size
    /\ Len(cloud) = 3

\* C9: the lookup of every point of the cloud succeeds, repeated points
\* included, and returns the (count, z_range, z_std) of the point's cell.
C9_LookupSucceeds ==
    \A i \in 1..Len(out) :
        /\ out[i].ok
        /\ LET st == CellStats(CellOf(cloud[out[i].idx], cloud, opts.bin_size, Buf),
                               cloud, opts.bin_size, Buf)
           IN  out[i].vals = <<st.count, st.z_range, st.std>>

\* C10: compute_3D_features raises on no descending non-negative triple: it
\* returns its eight descriptors, zero eigenvalues included.
C10_NeverRaises ==
    \A i \in 1..Len(out) :
        out[i].fn = "compute_3D_features" => (out[i].ok /\ Len(out[i].vals) = 8)

C12_NeighborhoodHasKPlusOne ==
    \A i \in 1..Len(out) :
        (/\ entry = "tree" /\ opts.neighbors >= 2 /\ opts.neighbors + 1 <= Len(cloud)
         /\ \A a, b \in 1..Len(cloud) : a # b => cloud[a] # cloud[b]) =>
            /\ out[i].ok
            /\ Len(out[i].val.indices) = opts.neighbors + 1
            /\ Len(out[i].val.distance) = opts.neighbors + 1
            /\ out[i].val.distance[1] = 0
            /\ cloud[out[i].val.indices[1]] = cloud[out[i].idx]

\* C13: in every record the run emits, the barycentric coordinates satisfy
\* alpha + beta <= 1 (stated for the records whose alpha and beta have a closed
\* form).
C13_BarycentricSumAtMostOne ==
    \A i \in 1..Len(out) :
        (entry = "api" /\ IsNum(out[i].vals[1]) /\ IsNum(out[i].vals[2])) =>
            NumLeq(NpAdd(out[i].vals[1], out[i].vals[2]), Num(1, 1))

CellMates(n) ==
    Members(CellOf(cloud[n], cloud, opts.bin_size, Buf), cloud, opts.bin_size, Buf)

\* C15: a cell that holds exactly one point has count 1, z_range 0 and a NaN
\* z standard deviation in the built frame, and the lookup of that point
\* returns these three values.
C15_SinglePointCellStdIsNaN ==
    GridBuilt =>
        \A n \in 1..Len(cloud) :
            Cardinality(CellMates(n)) = 1 =>
                /\ acc_features[n].count = Num(1, 1)
                /\ acc_features[n].z_range = Num(0, 1)
                /\ acc_features[n].std = NaN
                /\ \A i \in 1..Len(out) :
                      out[i].idx = n =>
                          (out[i].ok /\ out[i].vals = <<Num(1, 1), Num(0, 1), NaN>>)

\* C15 witness: the point of a one-point cell has been looked up, in a cloud
\* that also has a cell of several points
C15_Witness ==
    /\ GridBuilt
    /\ \E i \in 1..Len(out) : Cardinality(CellMates(out[i].idx)) = 1
    /\ \E n \in 1..Len(cloud) : Cardinality(CellMates(n)) > 1

\* C16: a run whose neighbour count exceeds the number of points emits no
\* record and does not complete: its first query ends it with a ValueError.
C16_TooManyNeighborsIsAnError ==
    (entry = "api" /\ opts.neighbors > Len(cloud)) =>
        /\ out = <<>>
        /\ pc # "done"
        /\ queries > 0 => (pc = "error" /\ exc = "ValueError" /\ queries = 1)

\* C16 witness: the query for more neighbours than points has been made
C16_Witness ==
    entry = "api" /\ opts.neighbors > Len(cloud) /\ Len(cloud) >= 3 /\ queries = 1

\* the grid and the tree as generate_features constructs them
Constructed ==
    /\ acc_features = build_accumulation_features(XyzOf(data), DefaultBinSize, Buf)
    /\ kd_tree = XyzOf(data)

\* the tree indexes the rows of the input and the grid has a row for each of
\* them, keyed by its coordinates
Built ==
    /\ kd_tree = XyzOf(data)
    /\ Len(acc_features) = Len(data)
    /\ \A n \in 1..Len(data) :
          <<acc_features[n].x, acc_features[n].y, acc_features[n].z>> = kd_tree[n]

\* the grid and the tree have been built at most once, not later than the
\* first query, and the loop is entered with both of them built
BuiltOnce ==
    entry = "api" =>
        /\ builds <= 1
        /\ queries > 0 => builds = 1
        /\ (pc = "loop" /\ queries = 0) => (builds = 1 /\ Built)

\* C17: in a run the grid and the tree are built at most once, and once
\* before the first point is processed; when the loop is entered they are
\* built over the input, and no step of the loop changes
\* them, the point cloud or the rows handed to the extractor.  Every run
\* takes a step and every state in the loop has a next one, so the
\* conditions are stated on the two ends of every step.
C17_BuiltOnceThenFrozen ==
    [][/\ BuiltOnce
       /\ entry = "api" => (builds' <= 1 /\ (queries' > 0 => builds' = 1))
       /\ pc = "loop" =>
            /\ acc_features' = acc_features /\ kd_tree' = kd_tree
            /\ cloud' = cloud /\ data' = data /\ builds' = builds]_vars

\* C17 witness: two points have been processed after the one construction
C17_Witness ==
    entry = "api" /\ queries >= 2 /\ builds = 1 /\ Len(out) >= 2 /\ Constructed

\* the cell of a record that holds the named quantity
Cell(row, name) ==
    row.vals[CHOOSE c \in 1..Len(row.names) : row.names[c] = name]

\* the neighbours generate_features used for a record
NeighborsOf(row) ==
    LET q == build_neighborhood(cloud[row.idx], opts.neighbors, kd_tree)
    IN  [p \in 1..Len(q.val.indices) |-> kd_tree[q.val.indices[p]]]

\* C18: in every record the run emits, eigenvalue_sum_2D is s0^2 + s1^2 and
\* eigenvalue_ratio_2D is s0^2 / s1^2, s0 >= s1 the singular values of the
\* (x, y) projection of the neighbourhood, and eigenvalue_sum is the sum of the
\* squared 3D singular values (stated for the records whose singular values
\* have a closed form).
C18_DescriptorsFromSquaredSingularValues ==
    \A i \in 1..Len(out) :
        LET s2 == _pca(Project2D(NeighborsOf(out[i])), 2).val
            s3 == _pca(NeighborsOf(out[i]), 3).val
        IN  (entry = "api" /\ (\A j \in 1..2 : IsNum(s2[j])) /\ (\A m \in 1..3 : IsNum(s3[m]))) =>
                /\ Cell(out[i], "eigenvalue_sum_2D")
                      = NpAdd(NpMul(s2[1], s2[1]), NpMul(s2[2], s2[2]))
                /\ Cell(out[i], "eigenvalue_ratio_2D")
                      = NpDiv(NpMul(s2[1], s2[1]), NpMul(s2[2], s2[2]))
                /\ Cell(out[i], "eigenvalue_sum")
                      = NpSum([j \in 1..3 |-> NpMul(s3[j], s3[j])])

====
